---- MODULE Spec2Model ----
(***************************************************************************)
(* Quota backends of mayan/apps/quotas/quota_backends.py:                  *)
(* DocumentCountQuota (bound to the pre-save signal of Document) and       *)
(* DocumentSizeQuota (bound to the pre-save signal of DocumentVersion).    *)
(*                                                                         *)
(* A behaviour follows one backend instance.  The state is the instance's  *)
(* fields, the Document table (each row with its document type and the     *)
(* actor of its "document created" action), the creations that passed the  *)
(* pre-save check and are not written yet, and the last call with its      *)
(* keyword arguments and how it ended.                                     *)
(***************************************************************************)
EXTENDS Integers, FiniteSets, Bags

VARIABLES backend, documents, pending, last

vars == <<backend, documents, pending, last>>

(***************************************************************************)
(* Bounds of the model.                                                    *)
(***************************************************************************)
MaxDocuments == 2        \* rows of the Document table, written or pending
MaxDocumentsLimit == 1   \* documents_limit ranges over 0..MaxDocumentsLimit
MaxSizeLimit == 1        \* document_size_limit ranges over 0..MaxSizeLimit (MB)
MaxConcurrent == 2       \* creations in flight in the concurrent specification

(***************************************************************************)
(* Python's None; a primary key is None until the row is written, and the  *)
(* tables number their rows from 1, so None and 0 are the falsy values.    *)
(***************************************************************************)
None == 0

Truthy(x) == x # None

(***************************************************************************)
(* The tables the backends query: users (with their flags and groups),     *)
(* groups and document types.                                              *)
(***************************************************************************)
Users == 1..4

Groups == {1}

DocumentTypes == {1, 2}

is_superuser(user) == user = 3

is_staff(user) == user = 4

user_groups(user) == IF user = 1 THEN {1} ELSE {}

\* user_management.querysets.get_user_queryset
get_user_queryset == Users

(***************************************************************************)
(* The backend instances: the fields set by the two __init__ methods.      *)
(***************************************************************************)
UserIdSets == {{}, {2, 3, 4}}

DocumentTypeIdSets == {{1}}

DocumentCountQuotas ==
    [cls : {"DocumentCountQuota"},
     document_type_all : BOOLEAN,
     document_type_ids : DocumentTypeIdSets,
     documents_limit : 0..MaxDocumentsLimit,
     group_ids : SUBSET Groups,
     user_all : BOOLEAN,
     user_ids : UserIdSets]

DocumentSizeQuotas ==
    [cls : {"DocumentSizeQuota"},
     document_size_limit : 0..MaxSizeLimit,
     document_type_all : BOOLEAN,
     document_type_ids : DocumentTypeIdSets,
     group_ids : SUBSET Groups,
     user_all : BOOLEAN,
     user_ids : UserIdSets]

\* The model class whose pre-save signal the backend is bound to.
sender(self) ==
    IF self.cls = "DocumentCountQuota" THEN "Document" ELSE "DocumentVersion"

(***************************************************************************)
(* Scope resolution of the mixins.                                         *)
(***************************************************************************)
_get_document_types(self) == {t \in DocumentTypes : t \in self.document_type_ids}

_get_groups(self) == {g \in Groups : g \in self.group_ids}

_get_users(self) == {u \in Users : u \in self.user_ids}

\* users = self._get_users() | get_user_queryset().filter(groups__in=...)
ScopeUsers(self) ==
    _get_users(self) \cup
        {u \in get_user_queryset : user_groups(u) \cap _get_groups(self) # {}}

(***************************************************************************)
(* Outcomes of a call.                                                     *)
(***************************************************************************)
Returns == [raised |-> "", message |-> ""]

Raises(exception, message) == [raised |-> exception, message |-> message]

(***************************************************************************)
(* DocumentCountQuota                                                      *)
(***************************************************************************)
DocumentCountQuota_error_message == "Document count quota exceeded."

\* Faulty variant: the limit is off by one.
DocumentCountQuota_allowed_off_by_one(self) == self.documents_limit + 1

DocumentCountQuota_allowed(self) == self.documents_limit

\* Document.objects.filter(...).count(): the number of rows of the table
\* among the kinds of row the filter keeps.
Count(docs, rows) == BagCardinality([r \in rows |-> docs[r]])

\* Faulty variant: the rows are not filtered by the actor of their creation action.
_get_user_document_count_any_actor(self, docs, user) ==
    LET rows == IF ~self.document_type_all
                THEN {r \in DOMAIN docs :
                        r.document_type_id \in _get_document_types(self)}
                ELSE DOMAIN docs
    IN  IF Truthy(user)
        THEN IF is_superuser(user) \/ is_staff(user)
             THEN 0
             ELSE IF ~self.user_all /\ user \notin ScopeUsers(self)
                  THEN 0
                  ELSE Count(docs, rows)
        ELSE Count(docs, rows)

\* Every row of the Document table carries one "document created" action;
\* actor_object_id is its actor, None when the creation had no user.
_get_user_document_count(self, docs, user) ==
    LET rows == IF ~self.document_type_all
                THEN {r \in DOMAIN docs :
                        r.document_type_id \in _get_document_types(self)}
                ELSE DOMAIN docs
    IN  IF Truthy(user)
        THEN IF is_superuser(user) \/ is_staff(user)
             THEN 0
             ELSE IF ~self.user_all /\ user \notin ScopeUsers(self)
                  THEN 0
                  ELSE Count(docs, {r \in rows : r.actor_object_id = user})
        ELSE Count(docs, rows)

\* Faulty variant: the comparison is strict.
DocumentCountQuota_process_strict(self, docs, kwargs) ==
    IF ~Truthy(kwargs.instance.pk)
    THEN IF _get_user_document_count(self, docs, kwargs.user)
                > DocumentCountQuota_allowed(self)
         THEN Raises("QuotaExceeded", "Document size quota exceeded.")
         ELSE Returns
    ELSE Returns

\* kwargs.get('user') is None when the key is absent, and kwargs.user is
\* None in that case.
DocumentCountQuota_process(self, docs, kwargs) ==
    IF ~Truthy(kwargs.instance.pk)
    THEN IF _get_user_document_count(self, docs, kwargs.user)
                >= DocumentCountQuota_allowed(self)
         THEN Raises("QuotaExceeded", "Document size quota exceeded.")
         ELSE Returns
    ELSE Returns

(***************************************************************************)
(* DocumentSizeQuota                                                       *)
(***************************************************************************)
\* Faulty variant: a megabyte taken as 1000 * 1000 bytes.
DocumentSizeQuota_allowed_decimal(self) == self.document_size_limit * 1000 * 1000

DocumentSizeQuota_allowed(self) == self.document_size_limit * 1024 * 1024

\* Faulty variant: the check is not limited to new versions.
DocumentSizeQuota_process_any_pk(self, kwargs) ==
    IF kwargs.instance.size >= DocumentSizeQuota_allowed(self)
    THEN IF self.document_type_all
            \/ kwargs.instance.document_type \in _get_document_types(self)
         THEN IF ~kwargs.has_user
              THEN Raises("KeyError", "user")
              ELSE IF Truthy(kwargs.user)
                      /\ (is_superuser(kwargs.user) \/ is_staff(kwargs.user))
                   THEN Returns
                   ELSE IF self.user_all
                           \/ (Truthy(kwargs.user)
                               /\ kwargs.user \in ScopeUsers(self))
                        THEN Raises("QuotaExceeded",
                                    "Document size quota exceeded.")
                        ELSE Returns
         ELSE Returns
    ELSE Returns

\* kwargs['user'] raises KeyError when the key is absent.
DocumentSizeQuota_process(self, kwargs) ==
    IF ~Truthy(kwargs.instance.pk)
    THEN IF kwargs.instance.size >= DocumentSizeQuota_allowed(self)
         THEN IF self.document_type_all
                 \/ kwargs.instance.document_type \in _get_document_types(self)
              THEN IF ~kwargs.has_user
                   THEN Raises("KeyError", "user")
                   ELSE IF Truthy(kwargs.user)
                           /\ (is_superuser(kwargs.user) \/ is_staff(kwargs.user))
                        THEN Returns
                        ELSE IF self.user_all
                                \/ (Truthy(kwargs.user)
                                    /\ kwargs.user \in ScopeUsers(self))
                             THEN Raises("QuotaExceeded",
                                         "Document size quota exceeded.")
                             ELSE Returns
              ELSE Returns
         ELSE Returns
    ELSE Returns

(***************************************************************************)
(* Keyword arguments of the pre-save signal.                               *)
(***************************************************************************)
\* The acting user: a user, None, or no 'user' key at all.
UserArguments ==
    [user : Users \cup {None}, has_user : {TRUE}]
        \cup {[user |-> None, has_user |-> FALSE]}

\* File sizes around every threshold the limits give.
FileSizes ==
    {s \in {l * 1024 * 1024 + d : l \in 0..MaxSizeLimit, d \in {-1, 0, 1}} :
        s >= 0}

Kwargs(pk, document_type, size, ua) ==
    [instance |-> [pk |-> pk, document_type |-> document_type, size |-> size],
     user |-> ua.user, has_user |-> ua.has_user]

NoCall == [call |-> "none", kwargs |-> Kwargs(None, 1, 0, [user |-> None, has_user |-> TRUE]),
           result |-> Returns]

\* Primary keys of persisted rows: any of them is truthy.
PersistedPks == {1}

Row(document_type, user) ==
    [document_type_id |-> document_type, actor_object_id |-> user]

Rows == [document_type_id : DocumentTypes, actor_object_id : Users \cup {None}]

(***************************************************************************)
(* Initial states.                                                         *)
(***************************************************************************)
Init ==
    /\ backend \in DocumentCountQuotas \cup DocumentSizeQuotas
    /\ documents = EmptyBag
    /\ pending = EmptyBag
    /\ last = NoCall

InitConcurrent ==
    /\ backend \in DocumentCountQuotas
    /\ documents = EmptyBag
    /\ pending = EmptyBag
    /\ last = NoCall

(***************************************************************************)
(* Pre-save of a new Document: DocumentCountQuota.process runs before the  *)
(* row is written; a raise aborts the save.  At most inflight creations    *)
(* are between their check and their write.  The table bound stops the     *)
(* creations that would pass, not the checks.                              *)
(***************************************************************************)
DocumentPreSave(inflight, ua, document_type) ==
    /\ sender(backend) = "Document"
    /\ BagCardinality(pending) < inflight
    /\ LET kwargs == Kwargs(None, document_type, 0, ua)
           result == DocumentCountQuota_process(backend, documents, kwargs)
       IN  /\ \/ result.raised # ""
              \/ BagCardinality(documents) + BagCardinality(pending)
                    < MaxDocuments
           /\ last' = [call |-> "DocumentCountQuota.process",
                       kwargs |-> kwargs, result |-> result]
           /\ pending' = IF result.raised = ""
                         THEN pending (+) SetToBag({Row(document_type, ua.user)})
                         ELSE pending
    /\ UNCHANGED <<backend, documents>>

\* The write of a creation that passed its check: the row and its
\* "document created" action.
DocumentSave(row) ==
    /\ BagIn(row, pending)
    /\ documents' = documents (+) SetToBag({row})
    /\ pending' = pending (-) SetToBag({row})
    /\ last' = [call |-> "Document.save",
                kwargs |-> Kwargs(BagCardinality(documents) + 1,
                                  row.document_type_id, 0,
                                  [user |-> row.actor_object_id,
                                   has_user |-> TRUE]),
                result |-> Returns]
    /\ UNCHANGED backend

\* Pre-save of a Document that already has a primary key: a row of the
\* table, saved again.
DocumentUpdatePreSave(row, pk, ua) ==
    /\ sender(backend) = "Document"
    /\ BagIn(row, documents)
    /\ LET kwargs == Kwargs(pk, row.document_type_id, 0, ua)
       IN  last' = [call |-> "DocumentCountQuota.process", kwargs |-> kwargs,
                    result |-> DocumentCountQuota_process(backend, documents,
                                                          kwargs)]
    /\ UNCHANGED <<backend, documents, pending>>

\* Pre-save of a DocumentVersion, new (pk None) or persisted (pk 1).
DocumentVersionPreSave(pk, document_type, size, ua) ==
    /\ sender(backend) = "DocumentVersion"
    /\ LET kwargs == Kwargs(pk, document_type, size, ua)
       IN  last' = [call |-> "DocumentSizeQuota.process", kwargs |-> kwargs,
                    result |-> DocumentSizeQuota_process(backend, kwargs)]
    /\ UNCHANGED <<backend, documents, pending>>

Next ==
    \/ \E ua \in UserArguments, t \in DocumentTypes : DocumentPreSave(1, ua, t)
    \/ \E row \in Rows : DocumentSave(row)
    \/ \E row \in Rows, pk \in PersistedPks, ua \in UserArguments :
            DocumentUpdatePreSave(row, pk, ua)
    \/ \E pk \in {None} \cup PersistedPks, t \in DocumentTypes, s \in FileSizes,
          ua \in UserArguments : DocumentVersionPreSave(pk, t, s, ua)

NextConcurrent ==
    \/ \E ua \in UserArguments, t \in DocumentTypes :
            DocumentPreSave(MaxConcurrent, ua, t)
    \/ \E row \in Rows : DocumentSave(row)

Spec == Init /\ [][Next]_vars

SpecConcurrent == InitConcurrent /\ [][NextConcurrent]_vars

(***************************************************************************)
(* Vocabulary of the properties, stated on the tables and the instance's   *)
(* fields, not through the operators above.                                *)
(***************************************************************************)
CountCall == last.call = "DocumentCountQuota.process"

SizeCall == last.call = "DocumentSizeQuota.process"

NewInstance == last.kwargs.instance.pk = None

QuotaExceeded == last.result.raised = "QuotaExceeded"

Privileged(user) == user \in {3, 4}

RegularUser(user) == user \in {1, 2}

\* The user is in the actor scope of the backend.
InUserScope(user) ==
    \/ backend.user_all
    \/ user \in backend.user_ids
    \/ (user = 1 /\ 1 \in backend.group_ids)

\* The document type is in the document-type scope of the backend.
InTypeScope(document_type) ==
    backend.document_type_all \/ document_type \in backend.document_type_ids

\* Written documents of an in-scope type created by the user.
Creations(user) ==
    (IF InTypeScope(1) THEN CopiesIn(Row(1, user), documents) ELSE 0)
        + (IF InTypeScope(2) THEN CopiesIn(Row(2, user), documents) ELSE 0)

\* Creations of the user of an in-scope type that passed the check and are
\* not written.
InFlight(user) ==
    (IF InTypeScope(1) THEN CopiesIn(Row(1, user), pending) ELSE 0)
        + (IF InTypeScope(2) THEN CopiesIn(Row(2, user), pending) ELSE 0)

(***************************************************************************)
(* C1: when the acting user is a superuser or staff, process() of either   *)
(* backend never raises QuotaExceeded, whatever the limit (0 included),    *)
(* the scopes, the number of documents and the file size.                  *)
(***************************************************************************)
C1_PrivilegedNeverRaises ==
    ((CountCall \/ SizeCall) /\ last.kwargs.has_user
        /\ Privileged(last.kwargs.user))
    => ~QuotaExceeded

(***************************************************************************)
(* C2: DocumentCountQuota.process on a new document with a non-privileged  *)
(* user in the actor scope raises QuotaExceeded exactly when the written   *)
(* documents of an in-scope type created by that user number at least      *)
(* documents_limit; documents of other actors do not count.                *)
(***************************************************************************)
C2_CountThreshold ==
    (CountCall /\ NewInstance /\ RegularUser(last.kwargs.user)
        /\ InUserScope(last.kwargs.user))
    => /\ QuotaExceeded <=>
            Creations(last.kwargs.user) >= backend.documents_limit
       /\ last.result.raised \in {"", "QuotaExceeded"}

\* The check raised at exactly documents_limit >= 1 creations of the user,
\* with a document of another actor in the table.
C2_Witness ==
    /\ CountCall /\ NewInstance /\ RegularUser(last.kwargs.user)
    /\ InUserScope(last.kwargs.user)
    /\ backend.documents_limit >= 1
    /\ Creations(last.kwargs.user) = backend.documents_limit
    /\ BagCardinality(documents) > Creations(last.kwargs.user)
    /\ QuotaExceeded

(***************************************************************************)
(* C3: DocumentSizeQuota.process on a new version, with document_type_all  *)
(* and user_all true and a non-privileged user, raises QuotaExceeded       *)
(* exactly when the file size is at least document_size_limit * 1,048,576  *)
(* bytes.                                                                  *)
(***************************************************************************)
C3_SizeThreshold ==
    (SizeCall /\ NewInstance /\ backend.document_type_all /\ backend.user_all
        /\ last.kwargs.has_user /\ RegularUser(last.kwargs.user))
    => /\ QuotaExceeded <=>
            last.kwargs.instance.size >= backend.document_size_limit * 1048576
       /\ last.result.raised \in {"", "QuotaExceeded"}

\* A version of exactly document_size_limit megabytes, limit >= 1, raised.
C3_Witness ==
    /\ SizeCall /\ NewInstance /\ backend.document_type_all /\ backend.user_all
    /\ last.kwargs.has_user /\ RegularUser(last.kwargs.user)
    /\ backend.document_size_limit >= 1
    /\ last.kwargs.instance.size = backend.document_size_limit * 1048576
    /\ QuotaExceeded

(***************************************************************************)
(* C4: when user_all is false and the acting user is neither in user_ids   *)
(* nor a member of a configured group, DocumentCountQuota.process never    *)
(* raises, whatever the number of documents and the limit (0 included).    *)
(***************************************************************************)
C4_OutOfScopeNeverRaises ==
    (CountCall /\ last.kwargs.user \in Users
        /\ ~InUserScope(last.kwargs.user))
    => ~QuotaExceeded

(***************************************************************************)
(* C5: when document_type_all is false and the type of the document being  *)
(* saved (or of the parent document of the version) is outside             *)
(* document_type_ids, neither backend's process raises.                    *)
(***************************************************************************)
C5_OutOfTypeScopeNeverRaises ==
    ((CountCall \/ SizeCall)
        /\ ~InTypeScope(last.kwargs.instance.document_type))
    => ~QuotaExceeded

(***************************************************************************)
(* C6: process() of either backend, called with an instance that already   *)
(* has a primary key, never raises, for every user, configuration, number  *)
(* of documents and file size.                                             *)
(***************************************************************************)
C6_UpdateNeverRaises ==
    ((CountCall \/ SizeCall) /\ last.kwargs.instance.pk # None)
    => last.result.raised = ""

\* A persisted version as large as the limit, of an in-scope type, saved by
\* a non-privileged user of an all-users quota: the call returned.
C6_Witness ==
    /\ SizeCall /\ last.kwargs.instance.pk # None
    /\ last.kwargs.instance.size >= backend.document_size_limit * 1048576
    /\ InTypeScope(last.kwargs.instance.document_type)
    /\ backend.user_all
    /\ last.kwargs.has_user /\ RegularUser(last.kwargs.user)
    /\ last.result.raised = ""

(***************************************************************************)
(* C7: with document_type_all and user_all true and no documents at the    *)
(* start, in sequential creations (check, then write; a raise prevents the *)
(* write) a non-privileged user's creation passes while fewer than         *)
(* documents_limit of their documents are written and raises from then on, *)
(* so the user never has more than documents_limit documents.              *)
(***************************************************************************)
C7_SequentialLimit ==
    (backend.cls = "DocumentCountQuota" /\ backend.document_type_all
        /\ backend.user_all)
    => /\ \A u \in Users :
            RegularUser(u) =>
                Creations(u) + InFlight(u) <= backend.documents_limit
       /\ (CountCall /\ NewInstance /\ RegularUser(last.kwargs.user))
            => (QuotaExceeded <=>
                    Creations(last.kwargs.user) = backend.documents_limit)

\* The user has documents_limit >= 1 documents and the next creation raised.
C7_Witness ==
    /\ backend.cls = "DocumentCountQuota"
    /\ backend.document_type_all /\ backend.user_all
    /\ backend.documents_limit >= 1
    /\ CountCall /\ NewInstance /\ RegularUser(last.kwargs.user)
    /\ Creations(last.kwargs.user) = backend.documents_limit
    /\ QuotaExceeded

(***************************************************************************)
(* C8: whenever DocumentCountQuota.process raises QuotaExceeded, the error *)
(* carries the count message "Document count quota exceeded.", not the     *)
(* size message.                                                           *)
(***************************************************************************)
C8_CountMessage ==
    (CountCall /\ QuotaExceeded)
    => /\ last.result.message = DocumentCountQuota_error_message
       /\ last.result.message # "Document size quota exceeded."

(***************************************************************************)
(* C9: DocumentSizeQuota.process on a new version at least as large as the *)
(* limit, of an in-scope type, without an acting user (None, or no user    *)
(* argument), raises QuotaExceeded when user_all is true, returns when it  *)
(* is false, and fails with no other error.                                *)
(***************************************************************************)
C9_NoUser ==
    (SizeCall /\ NewInstance
        /\ last.kwargs.instance.size >= backend.document_size_limit * 1048576
        /\ InTypeScope(last.kwargs.instance.document_type)
        /\ last.kwargs.user = None)
    => last.result.raised = IF backend.user_all THEN "QuotaExceeded" ELSE ""

(***************************************************************************)
(* C10: the count check reads the written documents only and takes no      *)
(* lock: while another creation of the same in-scope, non-privileged user  *)
(* has passed its check and is not written, the user's next creation       *)
(* raises exactly when their written documents number at least             *)
(* documents_limit; so two creations can both pass at documents_limit - 1  *)
(* and leave the user above the limit.                                     *)
(***************************************************************************)
C10_CheckIgnoresInFlight ==
    (CountCall /\ NewInstance /\ RegularUser(last.kwargs.user)
        /\ InUserScope(last.kwargs.user)
        /\ InFlight(last.kwargs.user)
            >= (IF InTypeScope(last.kwargs.instance.document_type)
                    /\ ~QuotaExceeded THEN 2 ELSE 1))
    => (QuotaExceeded <=>
            Creations(last.kwargs.user) >= backend.documents_limit)

\* Both creations were written: an in-scope, non-privileged user has more
\* documents than documents_limit >= 1.
C10_Witness ==
    /\ backend.documents_limit >= 1
    /\ last.call = "Document.save"
    /\ RegularUser(last.kwargs.user)
    /\ InUserScope(last.kwargs.user)
    /\ Creations(last.kwargs.user) > backend.documents_limit

====
